---- MODULE Spec2Model ----
(***************************************************************************)
(* Model of the Temporal workflow-graph driver of                          *)
(* packages/@n8n/temporal-worker/src/workflows/workflow-execution.ts:      *)
(* WorkflowExecution, findStartNodes, executeNodeRecursive,                *)
(* getNodeInputData and getNextNodes.                                      *)
(*                                                                         *)
(* The async recursion of executeNodeRecursive is an explicit call stack;  *)
(* every await of an activity proxy is a suspension point with its own     *)
(* action.  JavaScript arrays are 0-based, TLA+ sequences 1-based: slot k  *)
(* of an output array `main` is main[k + 1].                               *)
(***************************************************************************)
EXTENDS Integers, Sequences, FiniteSets, TLC

(***************************************************************************)
(* Bounds of the explored workflow definitions.                            *)
(***************************************************************************)
MaxNodes == 3
MaxConns == 3
(* Deepest recursion of executeNodeRecursive that is explored. *)
MaxDepth == 5

AllNames == <<"A", "B", "C", "D", "E">>
AllIds == <<"id_A", "id_B", "id_C", "id_D", "id_E">>

NodeIdx == 1..MaxNodes
Names == {AllNames[i] : i \in NodeIdx}
Ids == {AllIds[i] : i \in NodeIdx}

(***************************************************************************)
(* Node types.  The twenty activity-backed branches of                     *)
(* executeNodeRecursive are textually identical; httpRequest stands for    *)
(* the regular ones, routeOnAttribute is the conditional (multi-output)    *)
(* node, manualTrigger is a pass-through node that calls no activity.      *)
(***************************************************************************)
HttpRequest == "n8n-nodes-base.httpRequest"
RouteOnAttribute == "n8n-nodes-base.routeOnAttribute"
ManualTrigger == "n8n-nodes-base.manualTrigger"
ActivityTypes == {HttpRequest, RouteOnAttribute}
NodeTypes == ActivityTypes \cup {ManualTrigger}

(* Connection kinds: the primary data-flow kind and an auxiliary one. *)
MainKind == "main"
AuxKind == "ai_tool"
KindOrder == <<MainKind, AuxKind>>

(* The two serialisations of the connection table. *)
ByKind == "byKind"
ByOutput == "byOutput"
Formats == {ByKind, ByOutput}

OutIdx == {0, 1}
InIdx == {0, 1}

(***************************************************************************)
(* Generic helpers.                                                        *)
(***************************************************************************)
RECURSIVE Flatten(_)
Flatten(ss) == IF ss = <<>> THEN <<>> ELSE Head(ss) \o Flatten(Tail(ss))

RECURSIVE SortedSeq(_)
SortedSeq(S) ==
    IF S = {} THEN <<>>
    ELSE LET m == CHOOSE x \in S : \A y \in S : x <= y
         IN <<m>> \o SortedSeq(S \ {m})

RECURSIVE SubsetsUpTo(_, _)
SubsetsUpTo(S, k) ==
    IF k = 0 THEN {{}}
    ELSE LET prev == SubsetsUpTo(S, k - 1)
         IN prev \cup {s \cup {x} : s \in prev, x \in S}

SeqMap(Op(_), s) == [i \in 1..Len(s) |-> Op(s[i])]

(***************************************************************************)
(* JavaScript conversions.                                                 *)
(***************************************************************************)
NaN == -1

(* parseInt(key, 10): digits parse, any other key is NaN. *)
ParseInt(key) ==
    CASE key = "0" -> 0
      [] key = "1" -> 1
      [] key = "2" -> 2
      [] OTHER -> NaN

(* String(n) for an output index used as an object key. *)
ToKey(n) ==
    CASE n = 0 -> "0"
      [] n = 1 -> "1"
      [] OTHER -> "2"

(***************************************************************************)
(* Workflow definitions (WorkflowExecutionInput).                          *)
(*                                                                         *)
(* A definition is drawn from: every set of at most MaxConns connections   *)
(* between node pairs (source earlier in the node list than the target,    *)
(* so the graph is acyclic), where at most one connection attribute        *)
(* differs from (main, output 0, input 0) and at most one node attribute   *)
(* differs from (httpRequest, enabled), in both serialisations of the      *)
(* connection table.                                                       *)
(***************************************************************************)
Pairs == {p \in NodeIdx \X NodeIdx : p[1] < p[2]}

NodeDeviationKinds == {"disabled", RouteOnAttribute, ManualTrigger}
NodeDeviationSets == {{}} \cup {{d} : d \in NodeIdx \X NodeDeviationKinds}

ConnDeviationKinds == {"aux", "out1", "index1"}
ConnDeviationSets(E) == {{}} \cup {{d} : d \in E \X ConnDeviationKinds}

(* INode, workflow-execution.ts:20-29 *)
MakeNode(i, D) ==
    [id |-> AllIds[i],
     name |-> AllNames[i],
     type |-> IF <<i, RouteOnAttribute>> \in D THEN RouteOnAttribute
              ELSE IF <<i, ManualTrigger>> \in D THEN ManualTrigger
              ELSE HttpRequest,
     disabled |-> <<i, "disabled">> \in D]

(* A connection of the graph, before serialisation. *)
MakeEdge(p, D) ==
    [src |-> p[1], dst |-> p[2],
     kind |-> IF <<p, "aux">> \in D THEN AuxKind ELSE MainKind,
     out |-> IF <<p, "out1">> \in D THEN 1 ELSE 0,
     index |-> IF <<p, "index1">> \in D THEN 1 ELSE 0]

(* One entry of the innermost array: { node, type, index }. *)
Conn(e) == [node |-> AllNames[e.dst], type |-> e.kind, index |-> e.index]

(* The connections of a set of edges, ordered by target position. *)
ConnsOf(E) ==
    LET order == SortedSeq({e.dst : e \in E})
    IN [k \in 1..Len(order) |-> Conn(CHOOSE e \in E : e.dst = order[k])]

(* Spec section 6 format: source -> kind -> array by output -> connections. *)
KindEntries(E) ==
    LET kinds == SelectSeq(KindOrder, LAMBDA k : \E e \in E : e.kind = k)
        OfKind(k) == {e \in E : e.kind = k}
        top(k) == CHOOSE m \in OutIdx :
                      /\ \E e \in OfKind(k) : e.out = m
                      /\ \A e \in OfKind(k) : e.out <= m
        entry(k) == [key |-> k,
                     outputs |-> [o \in 1..(top(k) + 1) |->
                                     ConnsOf({e \in OfKind(k) : e.out = o - 1})]]
    IN SeqMap(entry, kinds)

(* IConnections of workflow-execution.ts:32-36: source -> outputIndex -> *)
(* array of connection arrays.                                           *)
OutputEntries(E) ==
    LET outs == SortedSeq({e.out : e \in E})
        entry(o) == [key |-> ToKey(o),
                     outputs |-> <<ConnsOf({e \in E : e.out = o})>>]
    IN SeqMap(entry, outs)

(* The connection table: one entry per source node that has connections, *)
(* in insertion (node list) order.                                       *)
MakeConnections(E, format) ==
    LET sources == SortedSeq({e.src : e \in E})
        From(i) == {e \in E : e.src = i}
        entry(i) == [name |-> AllNames[i],
                     kinds |-> IF format = ByKind THEN KindEntries(From(i))
                               ELSE OutputEntries(From(i))]
    IN SeqMap(entry, sources)

MakeWorkflow(P, CD, ND, format) ==
    LET E == {MakeEdge(p, CD) : p \in P}
    IN [nodes |-> [i \in NodeIdx |-> MakeNode(i, ND)],
        connections |-> MakeConnections(E, format),
        edges |-> E,
        format |-> format]

(***************************************************************************)
(* Values.  An item records the node that produced it and its shape:       *)
(* "item" a data item, "errorResult" an object { data: [], error },        *)
(* "inputs" the inputData object of a pass-through node (keys: the input   *)
(* indices it holds).                                                      *)
(***************************************************************************)
Item(name) == [from |-> name, shape |-> "item", keys |-> {}]
ErrorResult(name) == [from |-> name, shape |-> "errorResult", keys |-> {}]

(* runData[id] is undefined until the node stores its output. *)
Undefined == [defined |-> FALSE, main |-> <<>>]
EmptyRunData == [id \in Ids |-> Undefined]

(* inputData = {}: no key is present. *)
NoInput == [present |-> FALSE, items |-> <<>>]
EmptyInputData == [i \in InIdx |-> NoInput]

InputKeys(inputData) == {i \in InIdx : inputData[i].present}

(* The items of an inputData object, in key order. *)
InputItems(inputData) ==
    Flatten(SeqMap(LAMBDA i : inputData[i].items, SortedSeq(InputKeys(inputData))))

(* allNodes.find((n) => n.name === name): the first match, 0 for undefined. *)
FindByName(allNodes, name) ==
    IF \E i \in 1..Len(allNodes) : allNodes[i].name = name
    THEN CHOOSE i \in 1..Len(allNodes) :
            /\ allNodes[i].name = name
            /\ \A j \in 1..(i - 1) : allNodes[j].name # name
    ELSE 0

(* Every connection of the table in enumeration order, with the source *)
(* name and the second-level key it is stored under.                   *)
KindConns(sourceNodeName, kindEntry) ==
    SeqMap(LAMBDA c : [source |-> sourceNodeName, key |-> kindEntry.key, conn |-> c],
           Flatten(kindEntry.outputs))

EntryConns(entry) ==
    Flatten(SeqMap(LAMBDA k : KindConns(entry.name, k), entry.kinds))

AllConns(connections) == Flatten(SeqMap(EntryConns, connections))

(***************************************************************************)
(* findStartNodes                                                          *)
(***************************************************************************)
findStartNodes(nodes, connections) ==
    LET all == AllConns(connections)
        nodesWithIncomingConnections == {all[k].conn.node : k \in 1..Len(all)}
    IN SelectSeq(nodes, LAMBDA node : node.name \notin nodesWithIncomingConnections)

(***************************************************************************)
(* getNodeInputData                                                        *)
(***************************************************************************)
RECURSIVE CollectInput(_, _, _, _, _)
CollectInput(list, node, allNodes, runData, inputData) ==
    IF list = <<>> THEN inputData
    ELSE LET x == Head(list)
             s == FindByName(allNodes, x.source)
             outputIndexNum == ParseInt(x.key)
             hit == /\ x.conn.node = node.name
                    /\ s # 0
                    /\ runData[allNodes[s].id].defined
                    /\ outputIndexNum # NaN
                    /\ outputIndexNum + 1 <= Len(runData[allNodes[s].id].main)
             next == IF hit
                     THEN [inputData EXCEPT ![x.conn.index] =
                             [present |-> TRUE,
                              items |-> runData[allNodes[s].id].main[outputIndexNum + 1]]]
                     ELSE inputData
         IN CollectInput(Tail(list), node, allNodes, runData, next)

getNodeInputData(node, allNodes, connections, runData) ==
    CollectInput(AllConns(connections), node, allNodes, runData, EmptyInputData)

(***************************************************************************)
(* getNextNodes                                                            *)
(***************************************************************************)
(* CollectNext giving up at the first connection to an unknown node. *)
RECURSIVE CollectNextUntilUnknown(_, _, _)
CollectNextUntilUnknown(list, allNodes, nextNodes) ==
    IF list = <<>> THEN nextNodes
    ELSE LET i == FindByName(allNodes, Head(list).conn.node)
             add == \A k \in 1..Len(nextNodes) : nextNodes[k].id # allNodes[i].id
         IN IF i = 0 THEN nextNodes
            ELSE CollectNextUntilUnknown(Tail(list), allNodes,
                        IF add THEN Append(nextNodes, allNodes[i]) ELSE nextNodes)

RECURSIVE CollectNext(_, _, _)
CollectNext(list, allNodes, nextNodes) ==
    IF list = <<>> THEN nextNodes
    ELSE LET i == FindByName(allNodes, Head(list).conn.node)
             add == /\ i # 0
                    /\ \A k \in 1..Len(nextNodes) : nextNodes[k].id # allNodes[i].id
         IN CollectNext(Tail(list), allNodes,
                        IF add THEN Append(nextNodes, allNodes[i]) ELSE nextNodes)

getNextNodes(node, allNodes, connections) ==
    LET own == SelectSeq(connections, LAMBDA e : e.name = node.name)
    IN IF own = <<>> THEN <<>>
       ELSE CollectNext(EntryConns(own[1]), allNodes, <<>>)

(***************************************************************************)
(* Activity results.  An activity proxy call either resolves with a value  *)
(* (`unknown` to the workflow) or rejects once the host has used up        *)
(* maximumAttempts.  A resolved value is an array of output slots, or an   *)
(* object carrying an error field (NodeActivityOutput, base-activity.ts).  *)
(***************************************************************************)
NoObject == [from |-> "", shape |-> "none", keys |-> {}]

ArrayOutput(slots) == [isArray |-> TRUE, elems |-> slots, obj |-> NoObject]
ObjectOutput(o) == [isArray |-> FALSE, elems |-> <<>>, obj |-> o]

(* Output slots of a node type: a conditional node has two. *)
NumOutputs(type) == IF type = RouteOnAttribute THEN 2 ELSE 1

(* What an activity may resolve with: a regular node emits one item on *)
(* its single output, a conditional node routes an item to any subset  *)
(* of its outputs; either may resolve with an error object instead.    *)
ActivityOutputs(node) ==
    {ArrayOutput(slots) :
        slots \in {f \in [1..NumOutputs(node.type) -> {<<>>, <<Item(node.name)>>}] :
                      node.type = RouteOnAttribute \/ f[1] # <<>>}}
    \cup {ObjectOutput(ErrorResult(node.name))}

(* Array.isArray(outputData) ? outputData : [[outputData]] *)
WrapMain(outputData) ==
    IF outputData.isArray THEN outputData.elems ELSE <<<<outputData.obj>>>>

(* Lines 489-494: runData[node.id] = { main: ... }. *)
StoreOutput(rd, node, outputData) ==
    [rd EXCEPT ![node.id] = [defined |-> TRUE, main |-> WrapMain(outputData)]]

(***************************************************************************)
(* State.                                                                  *)
(***************************************************************************)
VARIABLES
    wf,        \* the WorkflowExecutionInput (edges, format: how it was built)
    runData,   \* runData of WorkflowExecution, by node id
    pending,   \* start nodes the loop of lines 91-93 has not reached yet
    stack,     \* activations of executeNodeRecursive, innermost last
    status,    \* "running", "completed" (returned), "failed" (rejected)
    failure,   \* the error WorkflowExecution rejected with
    trace,     \* what the workflow did, in order
    history,   \* the activity results the host recorded, in order
    firstRun   \* the run being replayed (NoRun while it is the first run)

workflowVars == <<wf, runData, pending, stack, status, failure, trace, history, firstRun>>

(* TemporalConfig, read by the credentials controller and the client service. *)
VARIABLES temporalConfig

(* CredentialsInternalController and what it reads. *)
VARIABLES
    userRepository,     \* ids of the users that exist
    sharedCredentials,  \* <<userId, credentialId>>: found for that user with the scopes
    req,                \* the request resolve() is handling
    resolvePc,          \* where resolve() is suspended
    lookups,            \* the lookups and decryptions resolve() has made for req
    response,           \* what resolve() returned or threw
    served              \* the requests answered so far, with their outcome

credentialsVars ==
    <<userRepository, sharedCredentials, req, resolvePc, lookups, response, served>>

(* The worker process of start.ts. *)
VARIABLES
    worker,          \* module variable `worker`
    isShuttingDown,  \* module variable `isShuttingDown`
    startPc,         \* where start() is suspended
    handlerPc,       \* where the signal handler that shuts down is suspended
    timers,          \* seconds left on each armed shutdown timer
    signals,         \* the signals delivered so far
    shutdownCalls,   \* calls of worker.shutdown()
    exitCode,        \* argument of process.exit, NoExit while the process lives
    exitBy           \* which statement called process.exit

processVars ==
    <<worker, isShuttingDown, startPc, handlerPc, timers, signals, shutdownCalls,
      exitCode, exitBy>>

(* TemporalClientService and its callers. *)
VARIABLES
    client,       \* field `client`
    connection,   \* field `connection`
    callers,      \* the pending and finished calls, by caller
    opened,       \* connections the server has accepted, in order
    closed        \* connections that were closed

clientVars == <<client, connection, callers, opened, closed>>

(* One call of an activity: executeNodeActivity or BaseNodeActivity.run. *)
VARIABLES
    activityInput,   \* the NodeActivityInput of the call
    activityPc,      \* where the call is
    activityOutcome  \* how the call settled, and with what

activityVars == <<activityInput, activityPc, activityOutcome>>

(* One call of TemporalHistoryTransformerService.transformHistoryToExecution. *)
VARIABLES
    transformInput,  \* its arguments
    execution        \* the IExecutionResponse it returned

transformerVars == <<transformInput, execution>>

serviceVars ==
    <<temporalConfig, credentialsVars, processVars, clientVars, activityVars,
      transformerVars>>

vars == <<workflowVars, serviceVars>>

NoFailure == [activityType |-> "", message |-> ""]

(* What the host records for an activity that was rejected. *)
Rejected == ObjectOutput([from |-> "", shape |-> "rejected", keys |-> {}])

NoRun == [replaying |-> FALSE]

Frame(node) == [node |-> node, pc |-> "call", nextNodes |-> <<>>,
                inputData |-> EmptyInputData]

Top == stack[Len(stack)]
Pop == SubSeq(stack, 1, Len(stack) - 1)
SetTop(f) == [stack EXCEPT ![Len(stack)] = f]

Recorded(rd) == {id \in Ids : rd[id].defined}

(* outcome: "data" or "error" (an error field) for a resolved activity, *)
(* "rejected" for a rejected one, "none" otherwise.                    *)
Event(ev, node, inputData, rd, outcome) ==
    [ev |-> ev, node |-> node.name, inputData |-> inputData,
     recorded |-> Recorded(rd), outcome |-> outcome]

(***************************************************************************)
(* The other components before anything has been asked of them.  The       *)
(* workflow specifications leave them in this state.                       *)
(***************************************************************************)
(* TemporalConfig with the defaults of its field initialisers. *)
DefaultConfig == [enabled |-> FALSE, workerCredentialSecret |-> ""]

(* A header or body field: undefined, or a string. *)
Undef == [defined |-> FALSE, value |-> ""]
Str(v) == [defined |-> TRUE, value |-> v]

NoRequest == [secret |-> Undef, credentialId |-> Undef, userId |-> Undef]
NoResponse == [kind |-> "none", credentialId |-> ""]

CredentialsIdle ==
    /\ userRepository = {}
    /\ sharedCredentials = {}
    /\ req = NoRequest
    /\ resolvePc = "idle"
    /\ lookups = <<>>
    /\ response = NoResponse
    /\ served = <<>>

(* exitCode while process.exit has not been called. *)
NoExit == -1

ProcessIdle ==
    /\ worker = "undefined"
    /\ isShuttingDown = FALSE
    /\ startPc = "createWorker"
    /\ handlerPc = "none"
    /\ timers = <<>>
    /\ signals = <<>>
    /\ shutdownCalls = 0
    /\ exitCode = NoExit
    /\ exitBy = "none"

(* null, for the fields client and connection (connections are numbered *)
(* from 1 in the order the server accepts them).                        *)
Null == 0

MaxCallers == 3
Callers == 1..MaxCallers

IdleCall == [pc |-> "idle", op |-> "none", outcome |-> "none", value |-> Null]

ClientIdle ==
    /\ client = Null
    /\ connection = Null
    /\ callers = [c \in Callers |-> IdleCall]
    /\ opened = <<>>
    /\ closed = {}

(* No activity has been called. *)
NoInputData == [defined |-> FALSE, value |-> <<>>]
NoActivityInput ==
    [entry |-> "none", node |-> [name |-> "", type |-> ""], inputData |-> NoInputData]

(* The optional field `error` of NodeActivityOutput when it is absent. *)
NoError == [defined |-> FALSE, message |-> "", nodeName |-> ""]
NoOutput == [data |-> <<>>, error |-> NoError]

(* What the node-specific logic threw, when it threw nothing. *)
NotThrown == [kind |-> "none", message |-> "", text |-> "", n |-> 0]

NoOutcome == [settled |-> "pending", output |-> NoOutput, thrown |-> NotThrown]

ActivityIdle ==
    /\ activityInput = NoActivityInput
    /\ activityPc = "idle"
    /\ activityOutcome = NoOutcome

(* The transformer has not been called. *)
NoTransformInput == [called |-> FALSE]
NoExecution == [returned |-> FALSE]

TransformerIdle ==
    /\ transformInput = NoTransformInput
    /\ execution = NoExecution

ServicesIdle ==
    /\ temporalConfig = DefaultConfig
    /\ CredentialsIdle
    /\ ProcessIdle
    /\ ClientIdle
    /\ ActivityIdle
    /\ TransformerIdle

Init ==
    /\ \E P \in SubsetsUpTo(Pairs, MaxConns) :
         \E CD \in ConnDeviationSets(P) :
           \E ND \in NodeDeviationSets :
             \E f \in Formats :
               wf = MakeWorkflow(P, CD, ND, f)
    /\ runData = EmptyRunData
    /\ pending = findStartNodes(wf.nodes, wf.connections)
    /\ stack = <<>>
    /\ status = "running"
    /\ failure = NoFailure
    /\ trace = <<>>
    /\ history = <<>>
    /\ firstRun = NoRun
    /\ ServicesIdle

(* StartNextNode taking the start nodes in no particular order. *)
StartAnyNode ==
    /\ status = "running" /\ stack = <<>> /\ pending # <<>>
    /\ \E k \in 1..Len(pending) :
         /\ stack' = <<Frame(pending[k])>>
         /\ pending' = SubSeq(pending, 1, k - 1) \o SubSeq(pending, k + 1, Len(pending))
    /\ UNCHANGED <<wf, runData, status, failure, trace, history, firstRun, serviceVars>>

(* Lines 91-93: the next start node is handed to executeNodeRecursive. *)
StartNextNode ==
    /\ status = "running" /\ stack = <<>> /\ pending # <<>>
    /\ stack' = <<Frame(Head(pending))>>
    /\ pending' = Tail(pending)
    /\ UNCHANGED <<wf, runData, status, failure, trace, history, firstRun, serviceVars>>

(* Lines 95-99: every start node is done, the workflow returns. *)
WorkflowReturns ==
    /\ status = "running" /\ stack = <<>> /\ pending = <<>>
    /\ status' = "completed"
    /\ UNCHANGED <<wf, runData, pending, stack, failure, trace, history, firstRun, serviceVars>>

(* SkipDisabledNode going on to the nodes connected to the disabled node. *)
SkipDisabledAndContinue ==
    /\ status = "running" /\ stack # <<>> /\ Top.pc = "call"
    /\ Top.node.disabled
    /\ stack' = SetTop([Top EXCEPT !.pc = "loop",
                                   !.nextNodes = getNextNodes(Top.node, wf.nodes, wf.connections)])
    /\ trace' = Append(trace, Event("skip", Top.node, EmptyInputData, runData, "none"))
    /\ UNCHANGED <<wf, runData, pending, status, failure, history, firstRun, serviceVars>>

(* Lines 133-137: a disabled node returns at once. *)
SkipDisabledNode ==
    /\ status = "running" /\ stack # <<>> /\ Top.pc = "call"
    /\ Top.node.disabled
    /\ stack' = Pop
    /\ trace' = Append(trace, Event("skip", Top.node, EmptyInputData, runData, "none"))
    /\ UNCHANGED <<wf, runData, pending, status, failure, history, firstRun, serviceVars>>

(* InvokeActivity without the disabled check of lines 133-137. *)
InvokeActivityOfDisabled ==
    /\ status = "running" /\ stack # <<>> /\ Top.pc = "call"
    /\ Top.node.type \in ActivityTypes
    /\ LET inputData == getNodeInputData(Top.node, wf.nodes, wf.connections, runData)
       IN /\ stack' = SetTop([Top EXCEPT !.pc = "await", !.inputData = inputData])
          /\ trace' = Append(trace, Event("invoke", Top.node, inputData, runData, "none"))
    /\ UNCHANGED <<wf, runData, pending, status, failure, history, firstRun, serviceVars>>

(* Lines 146-475: input is gathered and the activity of the node type *)
(* is called; the workflow suspends on the await.                     *)
InvokeActivity ==
    /\ status = "running" /\ stack # <<>> /\ Top.pc = "call"
    /\ ~Top.node.disabled
    /\ Top.node.type \in ActivityTypes
    /\ LET inputData == getNodeInputData(Top.node, wf.nodes, wf.connections, runData)
       IN /\ stack' = SetTop([Top EXCEPT !.pc = "await", !.inputData = inputData])
          /\ trace' = Append(trace, Event("invoke", Top.node, inputData, runData, "none"))
    /\ UNCHANGED <<wf, runData, pending, status, failure, history, firstRun, serviceVars>>

(* The await resolves with outputData: lines 489-497 store the output *)
(* and compute the nodes to visit next.                               *)
AwaitResolves(outputData) ==
    /\ status = "running" /\ stack # <<>> /\ Top.pc = "await"
    /\ runData' = StoreOutput(runData, Top.node, outputData)
    /\ trace' = Append(trace, Event("complete", Top.node, Top.inputData, runData',
                                 IF outputData.isArray THEN "data" ELSE "error"))
    /\ stack' = SetTop([Top EXCEPT !.pc = "loop",
                                   !.nextNodes = getNextNodes(Top.node, wf.nodes, wf.connections)])
    /\ UNCHANGED <<wf, pending, status, failure, firstRun, serviceVars>>

ActivityCompletes ==
    /\ stack # <<>>
    /\ \E outputData \in ActivityOutputs(Top.node) : AwaitResolves(outputData)
    /\ UNCHANGED history

(* The await rejects (retries exhausted): nothing in the workflow      *)
(* catches, so every activation unwinds and WorkflowExecution rejects. *)
AwaitRejects ==
    /\ status = "running" /\ stack # <<>> /\ Top.pc = "await"
    /\ stack' = <<>>
    /\ status' = "failed"
    /\ failure' = [activityType |-> Top.node.type, message |-> Top.node.name]
    /\ trace' = Append(trace, Event("fail", Top.node, Top.inputData, runData, "rejected"))
    /\ UNCHANGED <<wf, runData, pending, firstRun, serviceVars>>

ActivityFails == AwaitRejects /\ UNCHANGED history

(* Lines 476-487: trigger and unknown node types pass inputData through. *)
PassThroughNode ==
    /\ status = "running" /\ stack # <<>> /\ Top.pc = "call"
    /\ ~Top.node.disabled
    /\ Top.node.type \notin ActivityTypes
    /\ LET inputData == getNodeInputData(Top.node, wf.nodes, wf.connections, runData)
           outputData == ObjectOutput([from |-> Top.node.name, shape |-> "inputs",
                                       keys |-> InputKeys(inputData)])
       IN /\ runData' = StoreOutput(runData, Top.node, outputData)
          /\ trace' = Append(trace, Event("pass", Top.node, inputData, runData', "none"))
          /\ stack' = SetTop([Top EXCEPT !.pc = "loop", !.inputData = inputData,
                                !.nextNodes = getNextNodes(Top.node, wf.nodes, wf.connections)])
    /\ UNCHANGED <<wf, pending, status, failure, history, firstRun, serviceVars>>

(* Lines 498-500: recurse into the next connected node. *)
ExecuteNextNode ==
    /\ status = "running" /\ stack # <<>> /\ Top.pc = "loop"
    /\ Top.nextNodes # <<>>
    /\ Len(stack) < MaxDepth
    /\ stack' = Append(SetTop([Top EXCEPT !.nextNodes = Tail(Top.nextNodes)]),
                       Frame(Head(Top.nextNodes)))
    /\ UNCHANGED <<wf, runData, pending, status, failure, trace, history, firstRun, serviceVars>>

(* Line 501: the activation returns to its caller. *)
ReturnFromNode ==
    /\ status = "running" /\ stack # <<>> /\ Top.pc = "loop"
    /\ Top.nextNodes = <<>>
    /\ stack' = Pop
    /\ UNCHANGED <<wf, runData, pending, status, failure, trace, history, firstRun, serviceVars>>

Next ==
    \/ StartNextNode
    \/ WorkflowReturns
    \/ SkipDisabledNode
    \/ InvokeActivity
    \/ ActivityCompletes
    \/ ActivityFails
    \/ PassThroughNode
    \/ ExecuteNextNode
    \/ ReturnFromNode

Spec == Init /\ [][Next]_vars

(***************************************************************************)
(* The graph the workflow definition describes, and what the trace shows.  *)
(***************************************************************************)
PrimaryEdges == {e \in wf.edges : e.kind = MainKind}

NodeAt(i) == wf.nodes[i]

PrimaryParents(i) == {e.src : e \in {x \in PrimaryEdges : x.dst = i}}

RECURSIVE ReachableFrom(_)
ReachableFrom(S) ==
    LET more == S \cup {e.dst : e \in {x \in PrimaryEdges : x.src \in S}}
    IN IF more = S THEN S ELSE ReachableFrom(more)

(* Nodes with no incoming primary connection. *)
PrimaryRoots == {i \in NodeIdx : PrimaryParents(i) = {}}

Events(ev, name) == {k \in 1..Len(trace) : trace[k].ev = ev /\ trace[k].node = name}

Finished == status # "running"

\* C1: the activity of a node is invoked at most once per invocation.
C1_AtMostOnce ==
    \A i \in NodeIdx : Cardinality(Events("invoke", AllNames[i])) <= 1

\* C2: a node's activity is invoked only after every parent that is executed
\* in the same invocation has completed and its result has been recorded.
C2_TopologicalOrder ==
    \A k \in 1..Len(trace) : \A i \in NodeIdx :
        (trace[k].ev = "invoke" /\ trace[k].node = AllNames[i]) =>
            \A p \in PrimaryParents(i) :
                Events("invoke", AllNames[p]) # {} =>
                    /\ \E j \in Events("complete", AllNames[p]) : j < k
                    /\ AllIds[p] \in trace[k].recorded

\* C3: when two parents P1 and P2 of N have each produced one item on the
\* output they connect to N, the input passed to N's activity holds both
\* items, P1's before P2's (P1 enumerated first in the connection table).
C3_InputAggregation ==
    (stack # <<>> /\ Top.pc = "await") =>
        \A e1, e2 \in PrimaryEdges :
            (/\ AllNames[e1.dst] = Top.node.name
             /\ AllNames[e2.dst] = Top.node.name
             /\ e1.src < e2.src
             /\ runData[AllIds[e1.src]].defined
             /\ runData[AllIds[e2.src]].defined
             /\ Len(runData[AllIds[e1.src]].main) > e1.out
             /\ Len(runData[AllIds[e2.src]].main) > e2.out
             /\ runData[AllIds[e1.src]].main[e1.out + 1] = <<Item(AllNames[e1.src])>>
             /\ runData[AllIds[e2.src]].main[e2.out + 1] = <<Item(AllNames[e2.src])>>)
            => LET items == InputItems(Top.inputData)
               IN \E a, b \in 1..Len(items) :
                     /\ a < b
                     /\ items[a] = Item(AllNames[e1.src])
                     /\ items[b] = Item(AllNames[e2.src])

(* The recorded result of node i is an array of output slots of which *)
(* slot `out` is empty and some other slot carries data.              *)
EmptyOutput(i, out) ==
    LET main == runData[AllIds[i]].main
    IN /\ runData[AllIds[i]].defined
       /\ Events("complete", AllNames[i]) # {}
       /\ \A k \in Events("complete", AllNames[i]) : trace[k].outcome = "data"
       /\ Len(main) > out
       /\ main[out + 1] = <<>>
       /\ \E o \in 1..Len(main) : main[o] # <<>>

ActiveOutput(i, out) ==
    LET main == runData[AllIds[i]].main
    IN /\ runData[AllIds[i]].defined
       /\ \A k \in Events("complete", AllNames[i]) : trace[k].outcome = "data"
       /\ Len(main) > out
       /\ main[out + 1] # <<>>

IsConditional(i) == NodeAt(i).type = RouteOnAttribute

\* C4: a node reachable only through an empty output of a conditional node
\* is never executed and is absent from RunData.
C4_BranchIsolation ==
    \A e \in PrimaryEdges :
        (/\ IsConditional(e.src)
         /\ EmptyOutput(e.src, e.out)
         /\ PrimaryParents(e.dst) = {e.src})
        => /\ Events("invoke", AllNames[e.dst]) = {}
           /\ Events("pass", AllNames[e.dst]) = {}
           /\ ~runData[AllIds[e.dst]].defined

(* The children of output `out` of conditional node g, and the branch *)
(* (the children and everything downstream of them) it starts.        *)
BranchChildren(g, out) ==
    {e.dst : e \in {x \in PrimaryEdges : x.src = g /\ x.out = out}}

Branch(g, out) == ReachableFrom(BranchChildren(g, out))

ActiveBranch(g, out) ==
    IsConditional(g) /\ ActiveOutput(g, out) /\ BranchChildren(g, out) # {}

InSomeBranch(i) ==
    \E g \in NodeIdx : \E out \in OutIdx : IsConditional(g) /\ i \in Branch(g, out)

\* C5: when an activity fails inside one active branch of a conditional
\* node, the invocation still succeeds and the nodes of every sibling
\* active branch are executed and appear in RunData.
C5_BranchFailureIsolated ==
    \A k \in 1..Len(trace) : \A i, g \in NodeIdx : \A out, sib \in OutIdx :
        (/\ Finished
         /\ trace[k].ev = "fail" /\ trace[k].node = AllNames[i]
         /\ ActiveBranch(g, out) /\ i \in Branch(g, out)
         /\ sib # out
         /\ ActiveBranch(g, sib) /\ i \notin Branch(g, sib))
        => /\ status = "completed"
           /\ \A c \in BranchChildren(g, sib) :
                 ~NodeAt(c).disabled => runData[AllIds[c]].defined

\* C6: when the activity of a node outside any conditional branch reports an
\* error (an error field, or a rejection after the retries), no further
\* activity is invoked and the invocation ends with an error that carries
\* the node's name and message.
C6_ErrorAborts ==
    \A k \in 1..Len(trace) : \A i \in NodeIdx :
        (/\ trace[k].node = AllNames[i]
         /\ trace[k].outcome \in {"error", "rejected"}
         /\ ~InSomeBranch(i))
        => /\ \A j \in 1..Len(trace) : j > k => trace[j].ev # "invoke"
           /\ Finished => /\ status = "failed"
                          /\ failure.message = AllNames[i]

\* C7: WorkflowExecution never rejects; every failure is returned as a value.
C7_NeverThrows == status # "failed"

\* C8: the resolved start set is exactly the set of declared nodes with no
\* incoming connection of the primary kind.
C8_StartSetPrimary ==
    LET startNodes == findStartNodes(wf.nodes, wf.connections)
    IN {startNodes[k].name : k \in 1..Len(startNodes)}
         = {AllNames[i] : i \in PrimaryRoots}

AllSucceeded ==
    \A k \in 1..Len(trace) : trace[k].outcome \notin {"error", "rejected"}

\* C9: when every activity succeeds, a finished invocation has a RunData
\* entry for every non-disabled node reachable from the start set.
C9_ReachableCovered ==
    (status = "completed" /\ AllSucceeded) =>
        \A i \in ReachableFrom(PrimaryRoots) :
            ~NodeAt(i).disabled => runData[AllIds[i]].defined

\* C10: the activity of a disabled node is never invoked and no result is
\* recorded for it.
C10_DisabledSkipped ==
    \A i \in NodeIdx :
        NodeAt(i).disabled =>
            /\ Events("invoke", AllNames[i]) = {}
            /\ Events("complete", AllNames[i]) = {}
            /\ Events("pass", AllNames[i]) = {}
            /\ ~runData[AllIds[i]].defined

(* A disabled node was reached and skipped, and the invocation went on *)
(* to record the result of another node.                               *)
C10_Witness ==
    \E i \in NodeIdx :
        /\ NodeAt(i).disabled
        /\ Events("skip", AllNames[i]) # {}
        /\ ~runData[AllIds[i]].defined
        /\ status = "completed"
        /\ \E j \in NodeIdx : runData[AllIds[j]].defined

(***************************************************************************)
(* Claims about the input handed to an activity and about converging       *)
(* branches.                                                               *)
(***************************************************************************)
(* The activations of node i: activity invocations and pass-throughs. *)
Executions(i) == Events("invoke", AllNames[i]) \cup Events("pass", AllNames[i])

\* C14: when two active branches of one conditional node both reach the same
\* downstream node through different paths, that node is executed by one of
\* them only, never by both.
C14_SingleClaim ==
    \A g, n \in NodeIdx :
        (/\ ActiveBranch(g, 0) /\ ActiveBranch(g, 1)
         /\ n \in Branch(g, 0) /\ n \in Branch(g, 1))
        => Cardinality(Executions(n)) <= 1

\* C16: the input handed to an activity is never absent or an empty
\* collection; a node with no parents, or whose parents have produced no
\* output yet, is invoked with one (empty) item.
C16_InputNeverEmpty ==
    \A k \in 1..Len(trace) :
        trace[k].ev = "invoke" => InputKeys(trace[k].inputData) # {}

(***************************************************************************)
(* Workflow definitions with a cycle: a set of forward connections plus    *)
(* one connection that leads back (to an earlier node or to its own        *)
(* source).  Nothing in WorkflowExecutionInput rules such a table out.     *)
(***************************************************************************)
BackPairs == {p \in NodeIdx \X NodeIdx : p[1] >= p[2]}

InitCyclic ==
    /\ \E P \in SubsetsUpTo(Pairs, MaxConns - 1) :
         \E b \in BackPairs :
           \E ND \in NodeDeviationSets :
             \E f \in Formats :
               wf = MakeWorkflow(P \cup {b}, {}, ND, f)
    /\ runData = EmptyRunData
    /\ pending = findStartNodes(wf.nodes, wf.connections)
    /\ stack = <<>>
    /\ status = "running"
    /\ failure = NoFailure
    /\ trace = <<>>
    /\ history = <<>>
    /\ firstRun = NoRun
    /\ ServicesIdle

SpecCyclic == InitCyclic /\ [][Next]_vars

(* Node i lies on a cycle of primary connections. *)
OnCycle(i) ==
    i \in ReachableFrom({e.dst : e \in {x \in PrimaryEdges : x.src = i}})

\* C11: when no node qualifies as a start node, the invocation ends with a
\* workflow-level NoStartNode error (and no activity is invoked).
C11_NoStartNodeError ==
    (findStartNodes(wf.nodes, wf.connections) = <<>> /\ Finished)
        => /\ status = "failed"
           /\ trace = <<>>

\* C15: on a workflow whose primary connections form a cycle the invocation
\* terminates: unless it fails on the cycle, each node of the cycle is
\* executed at most once.
C15_CycleExecutedOnce ==
    \A i \in NodeIdx :
        (OnCycle(i) /\ status # "failed") => Cardinality(Executions(i)) <= 1

(***************************************************************************)
(* Workflow definitions with dangling connections: the connection table    *)
(* names a node that the node list does not hold, as the target or the     *)
(* source of at least one connection.                                      *)
(***************************************************************************)
WithoutNode(w, m) ==
    [w EXCEPT !.nodes = SelectSeq(w.nodes, LAMBDA n : n.name # AllNames[m])]

InitDangling ==
    /\ \E P \in SubsetsUpTo(Pairs, MaxConns) :
         \E m \in {p[1] : p \in P} \cup {p[2] : p \in P} :
           \E ND \in NodeDeviationSets :
             \E f \in Formats :
               wf = WithoutNode(MakeWorkflow(P, {}, ND, f), m)
    /\ runData = EmptyRunData
    /\ pending = findStartNodes(wf.nodes, wf.connections)
    /\ stack = <<>>
    /\ status = "running"
    /\ failure = NoFailure
    /\ trace = <<>>
    /\ history = <<>>
    /\ firstRun = NoRun
    /\ ServicesIdle

SpecDangling == InitDangling /\ [][Next]_vars

Declared(i) == \E k \in 1..Len(wf.nodes) : wf.nodes[k].name = AllNames[i]

(* Node i was handed to executeNodeRecursive (and skipped if disabled). *)
Visited(i) == Executions(i) \cup Events("skip", AllNames[i])

\* C12: a connection to or from a node name that is not in the node list is
\* skipped where it is used: the invocation fails only when an activity
\* rejects, and once it has completed every declared child of an executed
\* node has been visited, also when a sibling connection dangles, and the
\* output of a declared parent still reaches a node that an unknown source
\* is connected to as well.
C12_DanglingSkipped ==
    /\ status = "failed" =>
          /\ trace # <<>>
          /\ trace[Len(trace)].ev = "fail"
          /\ Declared(CHOOSE i \in NodeIdx : AllNames[i] = trace[Len(trace)].node)
    /\ \A i \in NodeIdx : ~Declared(i) => Visited(i) = {}
    /\ status = "completed" =>
          \A e \in wf.edges :
              (Declared(e.src) /\ Executions(e.src) # {} /\ Declared(e.dst))
                  => Visited(e.dst) # {}
    /\ (stack # <<>> /\ Top.pc = "await" /\ wf.format = ByOutput) =>
          \A e, d \in wf.edges :
              (/\ AllNames[e.dst] = Top.node.name /\ d.dst = e.dst
               /\ ~Declared(d.src)
               /\ Declared(e.src) /\ runData[AllIds[e.src]].defined
               /\ Len(runData[AllIds[e.src]].main) > e.out)
              => Top.inputData[e.index].present

(* A completed invocation in which a node with a dangling connection, *)
(* enumerated before a valid one, was executed and so was the valid   *)
(* child.                                                             *)
C12_Witness ==
    /\ status = "completed"
    /\ \E e, d \in wf.edges :
          /\ e.src = d.src /\ Executions(e.src) # {}
          /\ ~Declared(d.dst) /\ d.dst < e.dst
          /\ Declared(e.dst) /\ Executions(e.dst) # {}

(***************************************************************************)
(* Invocations that name a destination node.  WorkflowExecutionInput       *)
(* (lines 6-11) declares nodes, connections, pinData and executionData;    *)
(* a destinationNode property of the input object is carried along and     *)
(* read by nothing.                                                        *)
(***************************************************************************)
WithDestination(w, d) == [destinationNode |-> AllNames[d]] @@ w

InitDestination ==
    /\ \E P \in SubsetsUpTo(Pairs, MaxConns) :
         \E d \in NodeIdx :
           \E ND \in NodeDeviationSets :
             \E f \in Formats :
               wf = WithDestination(MakeWorkflow(P, {}, ND, f), d)
    /\ runData = EmptyRunData
    /\ pending = findStartNodes(wf.nodes, wf.connections)
    /\ stack = <<>>
    /\ status = "running"
    /\ failure = NoFailure
    /\ trace = <<>>
    /\ history = <<>>
    /\ firstRun = NoRun
    /\ ServicesIdle

SpecDestination == InitDestination /\ [][Next]_vars

(* The nodes reachable from S along primary connections that do not *)
(* leave node x.                                                    *)
RECURSIVE ReachableAvoiding(_, _)
ReachableAvoiding(S, x) ==
    LET more == S \cup {e.dst : e \in {y \in PrimaryEdges : y.src \in S /\ y.src # x}}
    IN IF more = S THEN S ELSE ReachableAvoiding(more, x)

\* C17: when a destination node is given, no node that is reachable only
\* through the destination node is executed or appears in RunData.
C17_StopsAtDestination ==
    \A d, i \in NodeIdx :
        (/\ wf.destinationNode = AllNames[d]
         /\ i \in ReachableFrom(PrimaryRoots)
         /\ i \notin ReachableAvoiding(PrimaryRoots, d))
        => /\ Executions(i) = {}
           /\ ~runData[AllIds[i]].defined

(***************************************************************************)
(* Replay.  Once an invocation has ended, the host runs WorkflowExecution  *)
(* again on the same input and answers every activity call with the result *)
(* it recorded for the call at that position of the first run.             *)
(***************************************************************************)
(* The first run: the host records every activity result. *)
FirstRunCompletes ==
    /\ ~firstRun.replaying
    /\ stack # <<>>
    /\ \E outputData \in ActivityOutputs(Top.node) :
         /\ AwaitResolves(outputData)
         /\ history' = Append(history, [node |-> Top.node.name, result |-> outputData])

FirstRunFails ==
    /\ ~firstRun.replaying
    /\ AwaitRejects
    /\ history' = Append(history, [node |-> Top.node.name, result |-> Rejected])

BeginReplay ==
    /\ ~firstRun.replaying
    /\ Finished
    /\ firstRun' = [replaying |-> TRUE, trace |-> trace, runData |-> runData,
                    status |-> status, failure |-> failure, history |-> history]
    /\ runData' = EmptyRunData
    /\ pending' = findStartNodes(wf.nodes, wf.connections)
    /\ stack' = <<>>
    /\ status' = "running"
    /\ failure' = NoFailure
    /\ trace' = <<>>
    /\ history' = <<>>
    /\ UNCHANGED <<wf, serviceVars>>

(* The result recorded at this position of the first run. *)
RecordedResult == firstRun.history[Len(history) + 1]

(* The recorded result answers the call. *)
ReplayCompletes ==
    /\ firstRun.replaying
    /\ stack # <<>>
    /\ Len(history) < Len(firstRun.history)
    /\ RecordedResult.node = Top.node.name
    /\ RecordedResult.result # Rejected
    /\ AwaitResolves(RecordedResult.result)
    /\ history' = Append(history, RecordedResult)

ReplayFails ==
    /\ firstRun.replaying
    /\ stack # <<>>
    /\ Len(history) < Len(firstRun.history)
    /\ RecordedResult.node = Top.node.name
    /\ RecordedResult.result = Rejected
    /\ AwaitRejects
    /\ history' = Append(history, RecordedResult)

NextReplay ==
    \/ StartNextNode
    \/ WorkflowReturns
    \/ SkipDisabledNode
    \/ InvokeActivity
    \/ FirstRunCompletes
    \/ FirstRunFails
    \/ PassThroughNode
    \/ ExecuteNextNode
    \/ ReturnFromNode
    \/ BeginReplay
    \/ ReplayCompletes
    \/ ReplayFails

(* The replayed definitions: connections of the primary kind into input 0, *)
(* at most one of them leaving output 1 of a conditional node.             *)
InitReplay ==
    /\ \E P \in SubsetsUpTo(Pairs, MaxConns) :
         \E ND \in NodeDeviationSets :
           \E CD \in {{}} \cup {{<<p, "out1">>} :
                                p \in {q \in P : <<q[1], RouteOnAttribute>> \in ND}} :
             wf = MakeWorkflow(P, CD, ND, ByOutput)
    /\ runData = EmptyRunData
    /\ pending = findStartNodes(wf.nodes, wf.connections)
    /\ stack = <<>>
    /\ status = "running"
    /\ failure = NoFailure
    /\ trace = <<>>
    /\ history = <<>>
    /\ firstRun = NoRun
    /\ ServicesIdle

SpecReplay == InitReplay /\ [][NextReplay]_vars

WorkflowIdle ==
    /\ wf = MakeWorkflow({}, {}, {}, ByOutput)
    /\ runData = EmptyRunData
    /\ pending = <<>>
    /\ stack = <<>>
    /\ status = "completed"
    /\ failure = NoFailure
    /\ trace = <<>>
    /\ history = <<>>
    /\ firstRun = NoRun

(***************************************************************************)
(* CredentialsInternalController.resolve (part_023:134-203).  resolve is   *)
(* async: it suspends on userRepository.findOne and on                     *)
(* credentialsFinderService.findCredentialForUser.  Requests are handled   *)
(* one after another.                                                      *)
(***************************************************************************)
MaxRequests == 2

Secrets == {"", "s3cret"}
UserIds == {"u1", "u2"}
CredentialIds == {"c1"}

Requests ==
    [secret : {Undef, Str(""), Str("s3cret"), Str("wrong")},
     credentialId : {Str(""), Str("c1")},
     userId : {Undef, Str("u1"), Str("u2")}]

(* !x for a string or undefined. *)
Falsy(x) == ~x.defined \/ x.value = ""

(* x === s for a string s. *)
StrictEquals(x, s) == x.defined /\ x.value = s

(* The negation of line 148 without its `!workerSecret` disjunct. *)
SecretEquals(workerSecret) ==
    StrictEquals(workerSecret, temporalConfig.workerCredentialSecret)

(* The negation of the condition of line 148. *)
SecretAccepted(workerSecret) ==
    ~(Falsy(workerSecret)
      \/ ~StrictEquals(workerSecret, temporalConfig.workerCredentialSecret))

Thrown(kind) == [kind |-> kind, credentialId |-> ""]

InitCredentials ==
    /\ WorkflowIdle
    /\ ActivityIdle
    /\ TransformerIdle
    /\ ProcessIdle
    /\ ClientIdle
    /\ \E s \in Secrets :
         temporalConfig = [DefaultConfig EXCEPT !.workerCredentialSecret = s]
    /\ userRepository \in SUBSET UserIds
    /\ sharedCredentials \in SUBSET (UserIds \X CredentialIds)
    /\ req = NoRequest
    /\ resolvePc = "idle"
    /\ lookups = <<>>
    /\ response = NoResponse
    /\ served = <<>>

(* Lines 146-168: the secret and the body are checked, then the user is *)
(* looked up.                                                           *)
Resolve ==
    /\ resolvePc = "idle"
    /\ Len(served) < MaxRequests
    /\ \E r \in Requests :
         /\ req' = r
         /\ IF ~SecretAccepted(r.secret)
            THEN /\ response' = Thrown("ForbiddenError")
                 /\ resolvePc' = "done"
                 /\ lookups' = <<>>
            ELSE IF Falsy(r.credentialId) \/ Falsy(r.userId)
            THEN /\ response' = Thrown("NotFoundError")
                 /\ resolvePc' = "done"
                 /\ lookups' = <<>>
            ELSE /\ response' = NoResponse
                 /\ resolvePc' = "findOne"
                 /\ lookups' = <<"findOne">>
    /\ UNCHANGED <<userRepository, sharedCredentials, served>>
    /\ UNCHANGED <<workflowVars, activityVars, transformerVars, temporalConfig, processVars, clientVars>>

(* Lines 168-179: findOne has returned. *)
FindOneReturns ==
    /\ resolvePc = "findOne"
    /\ IF req.userId.value \notin userRepository
       THEN /\ response' = Thrown("NotFoundError")
            /\ resolvePc' = "done"
            /\ lookups' = lookups
       ELSE /\ response' = NoResponse
            /\ resolvePc' = "findCredentialForUser"
            /\ lookups' = Append(lookups, "findCredentialForUser")
    /\ UNCHANGED <<userRepository, sharedCredentials, req, served>>
    /\ UNCHANGED <<workflowVars, activityVars, transformerVars, temporalConfig, processVars, clientVars>>

(* Lines 181-202: findCredentialForUser has returned. *)
FindCredentialReturns ==
    /\ resolvePc = "findCredentialForUser"
    /\ IF <<req.userId.value, req.credentialId.value>> \notin sharedCredentials
       THEN /\ response' = Thrown("NotFoundError")
            /\ lookups' = lookups
       ELSE /\ response' = [kind |-> "credentials",
                            credentialId |-> req.credentialId.value]
            /\ lookups' = Append(lookups, "decrypt")
    /\ resolvePc' = "done"
    /\ UNCHANGED <<userRepository, sharedCredentials, req, served>>
    /\ UNCHANGED <<workflowVars, activityVars, transformerVars, temporalConfig, processVars, clientVars>>

(* The promise of resolve settles and the response goes out. *)
Respond ==
    /\ resolvePc = "done"
    /\ served' = Append(served, [req |-> req, response |-> response, lookups |-> lookups])
    /\ req' = NoRequest
    /\ resolvePc' = "idle"
    /\ lookups' = <<>>
    /\ response' = NoResponse
    /\ UNCHANGED <<userRepository, sharedCredentials>>
    /\ UNCHANGED <<workflowVars, activityVars, transformerVars, temporalConfig, processVars, clientVars>>

NextCredentials ==
    \/ Resolve
    \/ FindOneReturns
    \/ FindCredentialReturns
    \/ Respond

SpecCredentials == InitCredentials /\ [][NextCredentials]_vars

(* Every request seen so far, the one in progress last. *)
Handled ==
    served \o (IF resolvePc = "idle" THEN <<>>
               ELSE <<[req |-> req, response |-> response, lookups |-> lookups]>>)

\* C18: resolve returns decrypted credential data only if the x-worker-secret
\* header is present, non-empty and equal to the configured secret, the user
\* exists and the credential is found for that user; with a missing, empty
\* or wrong secret it throws ForbiddenError before any lookup or decryption,
\* also when the configured secret is the empty default.
C18_SecretGuardsCredentials ==
    \A k \in 1..Len(Handled) :
        LET h == Handled[k]
            secretOk == /\ h.req.secret.defined
                        /\ h.req.secret.value # ""
                        /\ h.req.secret.value = temporalConfig.workerCredentialSecret
        IN /\ h.response.kind = "credentials" =>
                /\ secretOk
                /\ h.req.userId.defined
                /\ h.req.userId.value \in userRepository
                /\ <<h.req.userId.value, h.req.credentialId.value>> \in sharedCredentials
                /\ h.response.credentialId = h.req.credentialId.value
           /\ ~secretOk =>
                /\ h.response.kind = "ForbiddenError"
                /\ h.lookups = <<>>

(* One request was answered with the decrypted credentials and another, *)
(* with a missing or wrong secret, with ForbiddenError.                 *)
C18_Witness ==
    /\ \E k \in 1..Len(served) :
          /\ served[k].response.kind = "credentials"
          /\ served[k].lookups = <<"findOne", "findCredentialForUser", "decrypt">>
    /\ \E k \in 1..Len(served) :
          /\ served[k].response.kind = "ForbiddenError"
          /\ served[k].req.credentialId = Str("c1")

(***************************************************************************)
(* The worker process (start.ts).  start() suspends on createWorker and on *)
(* worker.run(); the handler registered for SIGTERM and SIGINT suspends on *)
(* worker.shutdown().  process.exit ends everything.  While the handler is *)
(* suspended the worker keeps the event loop busy, so an armed timer fires *)
(* when it is due although it is unref'ed.                                 *)
(***************************************************************************)
MaxSignals == 3

(* Default of createSignalHandler's timeoutInS. *)
TimeoutInS == 10

Signals == {"SIGTERM", "SIGINT"}

Alive == exitCode = NoExit

(* process.exit(code), called by `by`. *)
Exit(code, by) == exitCode' = code /\ exitBy' = by

InitProcess ==
    /\ WorkflowIdle
    /\ ActivityIdle
    /\ TransformerIdle
    /\ CredentialsIdle
    /\ ClientIdle
    /\ temporalConfig \in {[DefaultConfig EXCEPT !.enabled = e] : e \in BOOLEAN}
    /\ worker = "undefined"
    /\ isShuttingDown = FALSE
    /\ startPc = "load"
    /\ handlerPc = "none"
    /\ timers = <<>>
    /\ signals = <<>>
    /\ shutdownCalls = 0
    /\ exitCode = NoExit
    /\ exitBy = "none"

(* Lines 42-58: start() runs up to its first await. *)
Start ==
    /\ Alive /\ startPc = "load"
    /\ IF temporalConfig.enabled
       THEN /\ startPc' = "createWorker"
            /\ UNCHANGED <<exitCode, exitBy>>
       ELSE /\ startPc' = "failed"
            /\ Exit(1, "start")
    /\ UNCHANGED <<worker, isShuttingDown, handlerPc, timers, signals, shutdownCalls>>
    /\ UNCHANGED <<workflowVars, activityVars, transformerVars, temporalConfig, credentialsVars, clientVars>>

(* Lines 58-66: createWorker resolved; start() awaits worker.run(). *)
CreateWorkerResolves ==
    /\ Alive /\ startPc = "createWorker"
    /\ worker' = "created"
    /\ startPc' = "run"
    /\ UNCHANGED <<isShuttingDown, handlerPc, timers, signals, shutdownCalls,
                   exitCode, exitBy>>
    /\ UNCHANGED <<workflowVars, activityVars, transformerVars, temporalConfig, credentialsVars, clientVars>>

(* Lines 67-71: createWorker or worker.run() rejected. *)
StartFails ==
    /\ Alive /\ startPc \in {"createWorker", "run"}
    /\ startPc' = "failed"
    /\ Exit(1, "start")
    /\ UNCHANGED <<worker, isShuttingDown, handlerPc, timers, signals, shutdownCalls>>
    /\ UNCHANGED <<workflowVars, activityVars, transformerVars, temporalConfig, credentialsVars, clientVars>>

(* Line 66: worker.run() resolved and start() returns. *)
RunResolves ==
    /\ Alive /\ startPc = "run"
    /\ startPc' = "returned"
    /\ UNCHANGED <<worker, isShuttingDown, handlerPc, timers, signals, shutdownCalls,
                   exitCode, exitBy>>
    /\ UNCHANGED <<workflowVars, activityVars, transformerVars, temporalConfig, credentialsVars, clientVars>>

(* onSignal without the timer of lines 17-20. *)
OnSignalNoTimer ==
    /\ Alive /\ startPc # "load"
    /\ Len(signals) < MaxSignals
    /\ \E sig \in Signals : signals' = Append(signals, sig)
    /\ IF isShuttingDown
       THEN UNCHANGED <<worker, isShuttingDown, handlerPc, timers, shutdownCalls,
                        exitCode, exitBy>>
       ELSE /\ timers' = timers
            /\ isShuttingDown' = TRUE
            /\ IF worker = "created"
               THEN /\ shutdownCalls' = shutdownCalls + 1
                    /\ handlerPc' = "shutdown"
                    /\ UNCHANGED <<worker, exitCode, exitBy>>
               ELSE /\ handlerPc' = "done"
                    /\ Exit(0, "handler")
                    /\ UNCHANGED <<worker, shutdownCalls>>
    /\ UNCHANGED startPc
    /\ UNCHANGED <<workflowVars, activityVars, transformerVars, temporalConfig, credentialsVars, clientVars>>

(* onSignal without the isShuttingDown check of lines 11-13. *)
OnSignalUnguarded ==
    /\ Alive /\ startPc # "load"
    /\ Len(signals) < MaxSignals
    /\ \E sig \in Signals : signals' = Append(signals, sig)
    /\ timers' = Append(timers, TimeoutInS)
    /\ isShuttingDown' = TRUE
    /\ IF worker = "created"
       THEN /\ shutdownCalls' = shutdownCalls + 1
            /\ handlerPc' = "shutdown"
            /\ UNCHANGED <<worker, exitCode, exitBy>>
       ELSE /\ handlerPc' = "done"
            /\ Exit(0, "handler")
            /\ UNCHANGED <<worker, shutdownCalls>>
    /\ UNCHANGED startPc
    /\ UNCHANGED <<workflowVars, activityVars, transformerVars, temporalConfig, credentialsVars, clientVars>>

(* Lines 10-34 up to the await: a signal is delivered and onSignal runs. *)
OnSignal ==
    /\ Alive /\ startPc # "load"
    /\ Len(signals) < MaxSignals
    /\ \E sig \in Signals : signals' = Append(signals, sig)
    /\ IF isShuttingDown
       THEN UNCHANGED <<worker, isShuttingDown, handlerPc, timers, shutdownCalls,
                        exitCode, exitBy>>
       ELSE /\ timers' = Append(timers, TimeoutInS)
            /\ isShuttingDown' = TRUE
            /\ IF worker = "created"
               THEN /\ shutdownCalls' = shutdownCalls + 1
                    /\ handlerPc' = "shutdown"
                    /\ UNCHANGED <<worker, exitCode, exitBy>>
               ELSE /\ handlerPc' = "done"
                    /\ Exit(0, "handler")
                    /\ UNCHANGED <<worker, shutdownCalls>>
    /\ UNCHANGED startPc
    /\ UNCHANGED <<workflowVars, activityVars, transformerVars, temporalConfig, credentialsVars, clientVars>>

(* Lines 25-26, 31-33: worker.shutdown() resolved. *)
ShutdownResolves ==
    /\ Alive /\ handlerPc = "shutdown"
    /\ worker' = "undefined"
    /\ handlerPc' = "done"
    /\ Exit(0, "handler")
    /\ UNCHANGED <<isShuttingDown, startPc, timers, signals, shutdownCalls>>
    /\ UNCHANGED <<workflowVars, activityVars, transformerVars, temporalConfig, credentialsVars, clientVars>>

(* Lines 28-33: worker.shutdown() threw or rejected. *)
ShutdownRejects ==
    /\ Alive /\ handlerPc = "shutdown"
    /\ handlerPc' = "done"
    /\ Exit(0, "handler")
    /\ UNCHANGED <<worker, isShuttingDown, startPc, timers, signals, shutdownCalls>>
    /\ UNCHANGED <<workflowVars, activityVars, transformerVars, temporalConfig, credentialsVars, clientVars>>

(* A second passes. *)
Tick ==
    /\ Alive /\ timers # <<>>
    /\ \A k \in 1..Len(timers) : timers[k] > 0
    /\ timers' = [k \in 1..Len(timers) |-> timers[k] - 1]
    /\ UNCHANGED <<worker, isShuttingDown, startPc, handlerPc, signals, shutdownCalls,
                   exitCode, exitBy>>
    /\ UNCHANGED <<workflowVars, activityVars, transformerVars, temporalConfig, credentialsVars, clientVars>>

(* Lines 17-20: the timer callback runs. *)
TimeoutFires ==
    /\ Alive
    /\ \E k \in 1..Len(timers) : timers[k] = 0
    /\ Exit(1, "timeout")
    /\ UNCHANGED <<worker, isShuttingDown, startPc, handlerPc, timers, signals,
                   shutdownCalls>>
    /\ UNCHANGED <<workflowVars, activityVars, transformerVars, temporalConfig, credentialsVars, clientVars>>

NextProcess ==
    \/ Start
    \/ CreateWorkerResolves
    \/ StartFails
    \/ RunResolves
    \/ OnSignal
    \/ ShutdownResolves
    \/ ShutdownRejects
    \/ Tick
    \/ TimeoutFires

(* Time passes and a due timer fires while the process lives. *)
SpecProcess ==
    /\ InitProcess /\ [][NextProcess]_vars
    /\ WF_vars(Tick)
    /\ WF_vars(TimeoutFires)

(* The exit codes and who produces them: 0 by the handler once          *)
(* worker.shutdown() has settled or there was no worker, 1 by the timer *)
(* while the shutdown is still pending.                                 *)
ExitCodesMatch ==
    /\ exitCode = 0 =>
          /\ exitBy = "handler" /\ isShuttingDown /\ handlerPc = "done"
    /\ exitBy = "timeout" =>
          /\ exitCode = 1 /\ isShuttingDown /\ handlerPc = "shutdown"
          /\ \E k \in 1..Len(timers) : timers[k] = 0
    /\ (exitCode = 1 /\ isShuttingDown) => exitBy \in {"timeout", "start"}

Range(seq) == {seq[k] : k \in 1..Len(seq)}

Call(pc, op, outcome, value) ==
    [pc |-> pc, op |-> op, outcome |-> outcome, value |-> value]

InitClient ==
    /\ WorkflowIdle
    /\ ActivityIdle
    /\ TransformerIdle
    /\ CredentialsIdle
    /\ ProcessIdle
    /\ temporalConfig \in {[DefaultConfig EXCEPT !.enabled = e] : e \in BOOLEAN}
    /\ client = Null
    /\ connection = Null
    /\ callers = [c \in Callers |-> IdleCall]
    /\ opened = <<>>
    /\ closed = {}

(* Lines 24-50: connect() up to the await of Connection.connect. *)
Connect(c) ==
    /\ callers[c].pc = "idle"
    /\ callers' = [callers EXCEPT ![c] =
          IF client # Null THEN Call("done", "connect", "returned", client)
          ELSE IF ~temporalConfig.enabled THEN Call("done", "connect", "threw", Null)
          ELSE Call("connecting", "connect", "none", Null)]
    /\ UNCHANGED <<client, connection, opened, closed>>
    /\ UNCHANGED <<workflowVars, activityVars, transformerVars, temporalConfig, credentialsVars, processVars>>

(* Lines 50-62: Connection.connect resolved with a new connection. *)
ConnectResolves(c) ==
    /\ callers[c].pc = "connecting"
    /\ LET new == Len(opened) + 1
       IN /\ opened' = Append(opened, new)
          /\ connection' = new
          /\ client' = new
          /\ callers' = [callers EXCEPT ![c] = Call("done", "connect", "returned", new)]
    /\ UNCHANGED closed
    /\ UNCHANGED <<workflowVars, activityVars, transformerVars, temporalConfig, credentialsVars, processVars>>

(* Lines 63-66: Connection.connect rejected; connect() rethrows. *)
ConnectRejects(c) ==
    /\ callers[c].pc = "connecting"
    /\ callers' = [callers EXCEPT ![c] = Call("done", "connect", "threw", Null)]
    /\ UNCHANGED <<client, connection, opened, closed>>
    /\ UNCHANGED <<workflowVars, activityVars, transformerVars, temporalConfig, credentialsVars, processVars>>

(* Lines 73-78. *)
GetClient(c) ==
    /\ callers[c].pc = "idle"
    /\ callers' = [callers EXCEPT ![c] =
          IF client = Null THEN Call("done", "getClient", "threw", Null)
          ELSE Call("done", "getClient", "returned", client)]
    /\ UNCHANGED <<client, connection, opened, closed>>
    /\ UNCHANGED <<workflowVars, activityVars, transformerVars, temporalConfig, credentialsVars, processVars>>

(* Lines 83-85: disconnect() up to the await of connection.close. *)
Disconnect(c) ==
    /\ callers[c].pc = "idle"
    /\ callers' = [callers EXCEPT ![c] =
          IF connection # Null THEN Call("closing", "disconnect", "none", connection)
          ELSE Call("done", "disconnect", "returned", Null)]
    /\ UNCHANGED <<client, connection, opened, closed>>
    /\ UNCHANGED <<workflowVars, activityVars, transformerVars, temporalConfig, credentialsVars, processVars>>

(* CloseResolves clearing the connection but not the client. *)
CloseResolvesKeepsClient(c) ==
    /\ callers[c].pc = "closing"
    /\ closed' = closed \cup {callers[c].value}
    /\ connection' = Null
    /\ callers' = [callers EXCEPT ![c] = Call("done", "disconnect", "returned", Null)]
    /\ UNCHANGED <<client, opened>>
    /\ UNCHANGED <<workflowVars, activityVars, transformerVars, temporalConfig, credentialsVars, processVars>>

(* Lines 85-89: close() resolved; both fields are cleared. *)
CloseResolves(c) ==
    /\ callers[c].pc = "closing"
    /\ closed' = closed \cup {callers[c].value}
    /\ connection' = Null
    /\ client' = Null
    /\ callers' = [callers EXCEPT ![c] = Call("done", "disconnect", "returned", Null)]
    /\ UNCHANGED opened
    /\ UNCHANGED <<workflowVars, activityVars, transformerVars, temporalConfig, credentialsVars, processVars>>

(* Line 85: close() rejected; disconnect() rejects with the fields as they were. *)
CloseRejects(c) ==
    /\ callers[c].pc = "closing"
    /\ callers' = [callers EXCEPT ![c] = Call("done", "disconnect", "threw", Null)]
    /\ UNCHANGED <<client, connection, opened, closed>>
    /\ UNCHANGED <<workflowVars, activityVars, transformerVars, temporalConfig, credentialsVars, processVars>>

NextClient ==
    \/ \E c \in Callers : Connect(c)
    \/ \E c \in Callers : ConnectResolves(c)
    \/ \E c \in Callers : ConnectRejects(c)
    \/ \E c \in Callers : GetClient(c)
    \/ \E c \in Callers : Disconnect(c)
    \/ \E c \in Callers : CloseResolves(c)
    \/ \E c \in Callers : CloseRejects(c)

SpecClient == InitClient /\ [][NextClient]_vars

NoDisconnect == \A c \in Callers : callers[c].op # "disconnect"

\* C20: across connect() calls with no disconnect() in between, also when a
\* call is made while another is still awaiting the server, at most one
\* connection is opened and every successful call returns the same client.
C20_ConnectReuses ==
    NoDisconnect =>
        /\ Len(opened) <= 1
        /\ \A c, d \in Callers :
              (/\ callers[c].op = "connect" /\ callers[c].outcome = "returned"
               /\ callers[d].op = "connect" /\ callers[d].outcome = "returned")
              => callers[c].value = callers[d].value

(***************************************************************************)
(* Claims about the order of the traversal and about the result map.       *)
(***************************************************************************)
(* The start nodes of the driver, as positions of the node list. *)
StartSet ==
    LET startNodes == findStartNodes(wf.nodes, wf.connections)
    IN {i \in NodeIdx : \E k \in 1..Len(startNodes) : startNodes[k].name = AllNames[i]}

(* The nodes the recursion can get to: from S along connections of any *)
(* kind that leave an enabled node.                                    *)
RECURSIVE ReachableThroughEnabled(_)
ReachableThroughEnabled(S) ==
    LET more == S \cup {e.dst : e \in {x \in wf.edges :
                                           x.src \in S /\ ~NodeAt(x.src).disabled}}
    IN IF more = S THEN S ELSE ReachableThroughEnabled(more)

(* Workflow definitions with a disabled node: one node is disabled and at *)
(* most one other node is of another type than httpRequest.              *)
DisabledNodeSets ==
    {{<<i, "disabled">>} \cup T :
        i \in NodeIdx,
        T \in {{}} \cup {{d} : d \in NodeIdx \X {RouteOnAttribute, ManualTrigger}}}

InitDisabled ==
    /\ \E P \in SubsetsUpTo(Pairs, MaxConns) :
         \E CD \in ConnDeviationSets(P) :
           \E ND \in DisabledNodeSets :
             \E f \in Formats :
               wf = MakeWorkflow(P, CD, ND, f)
    /\ runData = EmptyRunData
    /\ pending = findStartNodes(wf.nodes, wf.connections)
    /\ stack = <<>>
    /\ status = "running"
    /\ failure = NoFailure
    /\ trace = <<>>
    /\ history = <<>>
    /\ firstRun = NoRun
    /\ ServicesIdle

SpecDisabled == InitDisabled /\ [][Next]_vars

\* C30: the children of a disabled node are not visited through it: a node
\* whose every path from the start set passes through a disabled node is
\* never executed and has no RunData entry.
C30_DisabledEndsTraversal ==
    LET reachable == ReachableThroughEnabled(StartSet)
        names == {AllNames[i] : i \in reachable}
    IN /\ \A k \in 1..Len(trace) :
             trace[k].ev \in {"invoke", "pass", "skip"} => trace[k].node \in names
       /\ \A i \in NodeIdx : runData[AllIds[i]].defined => i \in reachable

(* A disabled node with a child was skipped, the invocation completed *)
(* with another node executed, and the child was never visited.       *)
C30_Witness ==
    /\ status = "completed"
    /\ \E e \in wf.edges :
          /\ NodeAt(e.src).disabled
          /\ Events("skip", AllNames[e.src]) # {}
          /\ e.dst \notin ReachableThroughEnabled(StartSet)
          /\ Visited(e.dst) = {}
    /\ \E j \in NodeIdx : Executions(j) # {}

(* The nodes at distance at most d from the start set. *)
RECURSIVE Within(_)
Within(d) ==
    IF d = 0 THEN StartSet
    ELSE Within(d - 1) \cup {e.dst : e \in {x \in wf.edges : x.src \in Within(d - 1)}}

(* Breadth-first level of node i (MaxNodes if the start set does not reach it). *)
Level(i) ==
    IF i \in Within(MaxNodes)
    THEN CHOOSE d \in 0..MaxNodes : i \in Within(d) /\ \A c \in 0..(d - 1) : i \notin Within(c)
    ELSE MaxNodes

IsExecution(k) == trace[k].ev \in {"invoke", "pass"}

NodeOf(k) == CHOOSE i \in NodeIdx : AllNames[i] = trace[k].node

\* C25: nodes are executed in breadth-first discovery order from the start
\* set: a node nearer to the start set is never executed after a node
\* farther from it (every child before any grandchild).
C25_BreadthFirst ==
    \A k, l \in 1..Len(trace) :
        (k < l /\ IsExecution(k) /\ IsExecution(l))
            => Level(NodeOf(k)) <= Level(NodeOf(l))

\* C26: a recorded result is write-once: a step changes the result map only
\* by adding the entry of a node that had none.
C26_WriteOnce ==
    [][\A id \in Ids : runData[id].defined => runData'[id] = runData[id]]_vars

\* C28: however many signals arrive while a shutdown is in progress,
\* worker.shutdown() is called at most once and at most one timeout timer is
\* armed.
C28_ShutdownOnce ==
    /\ shutdownCalls <= 1
    /\ Len(timers) <= 1
    /\ shutdownCalls = 1 => isShuttingDown
    /\ Len(signals) >= 1 => Len(timers) = 1

(* A SIGTERM and a SIGINT have arrived while the shutdown of the worker *)
(* is pending: one call, one timer.                                     *)
C28_Witness ==
    /\ handlerPc = "shutdown"
    /\ exitCode = NoExit
    /\ \E k, l \in 1..Len(signals) : signals[k] = "SIGTERM" /\ signals[l] = "SIGINT"
    /\ shutdownCalls = 1
    /\ Len(timers) = 1

(***************************************************************************)
(* TemporalClientService used by one caller at a time: a call starts only  *)
(* when every earlier call has completed (callers take their turn in       *)
(* order).                                                                 *)
(***************************************************************************)
InTurn(c) == \A d \in Callers : d < c => callers[d].pc = "done"

ConnectInTurn(c) == InTurn(c) /\ Connect(c)

GetClientInTurn(c) == InTurn(c) /\ GetClient(c)

DisconnectInTurn(c) == InTurn(c) /\ Disconnect(c)

NextClientInTurn ==
    \/ \E c \in Callers : ConnectInTurn(c)
    \/ \E c \in Callers : ConnectResolves(c)
    \/ \E c \in Callers : ConnectRejects(c)
    \/ \E c \in Callers : GetClientInTurn(c)
    \/ \E c \in Callers : DisconnectInTurn(c)
    \/ \E c \in Callers : CloseResolves(c)
    \/ \E c \in Callers : CloseRejects(c)

SpecClientInTurn == InitClient /\ [][NextClientInTurn]_vars

Completed(c, op, outcome) ==
    callers[c].pc = "done" /\ callers[c].op = op /\ callers[c].outcome = outcome

(* The client is set only if the connection is set. *)
ClientNeedsConnection == client # Null => connection # Null

(* A connect() rejected because Temporal is disabled: nothing was opened *)
(* and the fields are as they were, unset.                               *)
DisabledOpensNothing ==
    (~temporalConfig.enabled /\ \E c \in Callers : Completed(c, "connect", "threw"))
        => opened = <<>> /\ client = Null /\ connection = Null

(* Before call c a connect() succeeded and no disconnect() call at all *)
(* was made since.                                                     *)
ConnectedNoDisconnectCall(c) ==
    \E a \in Callers :
        /\ a < c /\ Completed(a, "connect", "returned")
        /\ \A b \in Callers : (a < b /\ b < c) => callers[b].op # "disconnect"

(* Before call c a connect() succeeded and no disconnect() has resolved *)
(* since.                                                               *)
ConnectedNoDisconnect(c) ==
    \E a \in Callers :
        /\ a < c /\ Completed(a, "connect", "returned")
        /\ \A b \in Callers : (a < b /\ b < c) => ~Completed(b, "disconnect", "returned")

\* C29 as stated: the client is set only if the connection is set; getClient()
\* returns a client exactly when a connect() has succeeded with no
\* disconnect() since, and throws otherwise; a connect() rejected because
\* Temporal is disabled opens no connection and leaves the state unchanged.
C29_AsStated ==
    /\ ClientNeedsConnection
    /\ DisabledOpensNothing
    /\ \A c \in Callers :
          callers[c].op = "getClient" =>
              /\ Completed(c, "getClient", "returned") <=> ConnectedNoDisconnectCall(c)
              /\ Completed(c, "getClient", "threw") <=> ~ConnectedNoDisconnectCall(c)

\* C29 amended: as stated, with "no disconnect() since" read as "no
\* disconnect() that resolved since": a disconnect() that rejected (close()
\* failed) leaves client and connection set.
C29_ClientState ==
    /\ ClientNeedsConnection
    /\ DisabledOpensNothing
    /\ \A c \in Callers :
          callers[c].op = "getClient" =>
              /\ Completed(c, "getClient", "returned") <=> ConnectedNoDisconnect(c)
              /\ Completed(c, "getClient", "threw") <=> ~ConnectedNoDisconnect(c)
              /\ Completed(c, "getClient", "returned") => callers[c].value \in Range(opened)

(* connect() succeeded, disconnect() resolved, and getClient() then threw. *)
C29_Witness ==
    \E a, b, c \in Callers :
        /\ a < b /\ b < c
        /\ Completed(a, "connect", "returned")
        /\ Completed(b, "disconnect", "returned")
        /\ Completed(c, "getClient", "threw")
        /\ client = Null /\ connection = Null

(***************************************************************************)
(* The activity boundary: executeNodeActivity (the activity the worker     *)
(* registers) and BaseNodeActivity.run (the wrapper of the class-based     *)
(* node activities).  Both destructure the input, log, and run the         *)
(* node-specific logic inside one try/catch.                               *)
(***************************************************************************)
SetType == "n8n-nodes-base.set"

(* A type executeNodeActivity has no case for. *)
NoOp == "n8n-nodes-base.noOp"

(* The cases of the switch of executeNodeActivity. *)
RoutedTypes == {ManualTrigger, SetType, HttpRequest}

Entries == {"executeNodeActivity", "BaseNodeActivity.run"}

(* inputData: Item[][], one slot of one item when it is given. *)
GivenInputData == [defined |-> TRUE, value |-> <<<<"input">>>>]

ActivityInputs ==
    [entry : Entries,
     node : [name : Names, type : RoutedTypes \cup {NoOp}],
     inputData : {NoInputData, GivenInputData}]

(* What node-specific logic returns: data, no data, or an error of its own. *)
NodeLogicOutputs(node) ==
    {[data |-> <<<<"output">>>>, error |-> NoError],
     [data |-> <<>>, error |-> NoError],
     [data |-> <<>>,
      error |-> [defined |-> TRUE, message |-> "invalid parameters",
                 nodeName |-> node.name]]}

(* What node-specific logic throws: an Error, or any other value. *)
ThrownValues ==
    {[kind |-> "Error", message |-> m, text |-> "", n |-> 0] :
        m \in {"Request failed", ""}}
    \cup {[kind |-> "string", message |-> "", text |-> "timeout", n |-> 0]}
    \cup {[kind |-> "number", message |-> "", text |-> "", n |-> k] :
            k \in {0, 404}}
    \cup {[kind |-> "undefined", message |-> "", text |-> "", n |-> 0]}

Digit(d) ==
    CASE d = 0 -> "0" [] d = 1 -> "1" [] d = 2 -> "2" [] d = 3 -> "3"
      [] d = 4 -> "4" [] d = 5 -> "5" [] d = 6 -> "6" [] d = 7 -> "7"
      [] d = 8 -> "8" [] OTHER -> "9"

RECURSIVE Decimal(_)
Decimal(k) == IF k < 10 THEN Digit(k) ELSE Decimal(k \div 10) \o Digit(k % 10)

(* error instanceof Error ? error.message : String(error) *)
ErrorMessage(error) ==
    CASE error.kind = "Error" -> error.message
      [] error.kind = "string" -> error.text
      [] error.kind = "number" -> Decimal(error.n)
      [] OTHER -> "undefined"

(* The value of the catch block. *)
CaughtOutput(error, node) ==
    [data |-> <<>>,
     error |-> [defined |-> TRUE, message |-> ErrorMessage(error),
                nodeName |-> node.name]]

(* input.inputData || [[{ json: {} }]] *)
PassThroughData(input) ==
    IF input.inputData.defined THEN input.inputData.value ELSE <<<<"{}">>>>

Resolved(output, error) ==
    [settled |-> "resolved", output |-> output, thrown |-> error]

InitActivity ==
    /\ activityInput \in ActivityInputs
    /\ activityPc = "called"
    /\ activityOutcome = NoOutcome
    /\ WorkflowIdle
    /\ TransformerIdle
    /\ temporalConfig = DefaultConfig
    /\ CredentialsIdle
    /\ ProcessIdle
    /\ ClientIdle

(* executeNodeActivity up to the call of the node's activity. *)
ExecuteNodeActivity ==
    /\ activityPc = "called"
    /\ activityInput.entry = "executeNodeActivity"
    /\ activityInput.node.type \in RoutedTypes
    /\ activityPc' = "nodeLogic"
    /\ UNCHANGED <<workflowVars, activityInput, activityOutcome, transformerVars,
                   temporalConfig, credentialsVars, processVars, clientVars>>

(* executeNodeActivity, default case: the input data is passed through. *)
ExecuteUnknownType ==
    /\ activityPc = "called"
    /\ activityInput.entry = "executeNodeActivity"
    /\ activityInput.node.type \notin RoutedTypes
    /\ activityPc' = "settled"
    /\ activityOutcome' =
         Resolved([data |-> PassThroughData(activityInput), error |-> NoError],
                  NotThrown)
    /\ UNCHANGED <<workflowVars, activityInput, transformerVars, temporalConfig,
                   credentialsVars, processVars, clientVars>>

(* BaseNodeActivity.run up to the call of this.executeNode(input). *)
Run ==
    /\ activityPc = "called"
    /\ activityInput.entry = "BaseNodeActivity.run"
    /\ activityPc' = "nodeLogic"
    /\ UNCHANGED <<workflowVars, activityInput, activityOutcome, transformerVars,
                   temporalConfig, credentialsVars, processVars, clientVars>>

(* The node-specific logic returns; the activity returns its result. *)
NodeLogicReturns ==
    /\ activityPc = "nodeLogic"
    /\ \E output \in NodeLogicOutputs(activityInput.node) :
         activityOutcome' = Resolved(output, NotThrown)
    /\ activityPc' = "settled"
    /\ UNCHANGED <<workflowVars, activityInput, transformerVars, temporalConfig,
                   credentialsVars, processVars, clientVars>>

(* NodeLogicThrows without the catch block. *)
NodeLogicThrowsUncaught ==
    /\ activityPc = "nodeLogic"
    /\ \E error \in ThrownValues :
         activityOutcome' =
           [settled |-> "rejected", output |-> NoOutput, thrown |-> error]
    /\ activityPc' = "settled"
    /\ UNCHANGED <<workflowVars, activityInput, transformerVars, temporalConfig,
                   credentialsVars, processVars, clientVars>>

(* The node-specific logic throws; the catch block returns the error. *)
NodeLogicThrows ==
    /\ activityPc = "nodeLogic"
    /\ \E error \in ThrownValues :
         activityOutcome' =
           Resolved(CaughtOutput(error, activityInput.node), error)
    /\ activityPc' = "settled"
    /\ UNCHANGED <<workflowVars, activityInput, transformerVars, temporalConfig,
                   credentialsVars, processVars, clientVars>>

NextActivity ==
    \/ ExecuteNodeActivity
    \/ ExecuteUnknownType
    \/ Run
    \/ NodeLogicReturns
    \/ NodeLogicThrows

SpecActivity == InitActivity /\ [][NextActivity]_vars

(* C21: neither executeNodeActivity nor BaseNodeActivity.run rejects, and  *)
(* when the node-specific logic threw, the call resolved with no data and  *)
(* an error whose nodeName is the name of the node of the input.           *)
C21_FailureIsAValue ==
    /\ activityOutcome.settled # "rejected"
    /\ activityOutcome.thrown # NotThrown =>
         /\ activityOutcome.settled = "resolved"
         /\ activityOutcome.output.data = <<>>
         /\ activityOutcome.output.error.defined
         /\ activityOutcome.output.error.nodeName = activityInput.node.name

(* run() has resolved with the error of a thrown value that is no Error. *)
C21_Witness ==
    /\ activityInput.entry = "BaseNodeActivity.run"
    /\ activityOutcome.settled = "resolved"
    /\ activityOutcome.thrown.kind = "number"
    /\ activityOutcome.output.error.message = "404"
    /\ activityOutcome.output.error.nodeName = activityInput.node.name

(***************************************************************************)
(* TemporalHistoryTransformerService.transformHistoryToExecution.          *)
(*                                                                         *)
(* An event is a record that may carry a `type`; its eventTime is its      *)
(* position in the history.  A runData object is the sequence of its       *)
(* entries in the order Object.entries gives them.                         *)
(***************************************************************************)
(* Longest history that is explored. *)
MaxEvents == 2

(* Most run items of one node that are explored. *)
MaxRuns == 2

WorkflowExecutionStarted == "WorkflowExecutionStarted"
WorkflowExecutionCompleted == "WorkflowExecutionCompleted"
WorkflowExecutionFailed == "WorkflowExecutionFailed"
WorkflowExecutionCanceled == "WorkflowExecutionCanceled"

(* An event with no `type` at all. *)
Untyped == ""

EventTypes ==
    {WorkflowExecutionStarted, WorkflowExecutionCompleted, WorkflowExecutionFailed,
     WorkflowExecutionCanceled, Untyped}

MakeEvent(type, time) ==
    [hasType |-> type # Untyped, type |-> type, eventTime |-> time]

Histories ==
    UNION {{[i \in 1..n |-> MakeEvent(types[i], i)] : types \in [1..n -> EventTypes]} :
             n \in 0..MaxEvents}

(* The reading of the clock during the call: later than every event. *)
Now == MaxEvents + 1

(* Values of the field `main` of a run item. *)
NoMain == [kind |-> "absent", value |-> <<>>]
MainValues ==
    {NoMain,
     [kind |-> "array", value |-> <<<<"item">>>>],
     [kind |-> "string", value |-> <<>>]}

RunItems == [main : MainValues]

(* Values of a key of runData: an object that holds `main` itself (what *)
(* executeNodeRecursive stores), or an array of run items.              *)
MainObject(main) == [isArray |-> FALSE, items |-> <<>>, main |-> main]
RunItemArray(items) == [isArray |-> TRUE, items |-> items, main |-> NoMain]

NodeDataValues ==
    {MainObject([kind |-> "array", value |-> <<<<"item">>>>])}
    \cup UNION {{RunItemArray(items) : items \in [1..n -> RunItems]} :
                  n \in 0..MaxRuns}

RunKeys == <<"Manual Trigger", "Set">>

Entry(key, value) == [key |-> key, value |-> value]

(* runData objects over the keys of RunKeys. *)
RunDataObjects ==
    {<<>>}
    \cup {<<Entry(RunKeys[k], v)>> : k \in 1..Len(RunKeys), v \in NodeDataValues}
    \cup {<<Entry(RunKeys[1], v), Entry(RunKeys[2], w)>> :
            v \in NodeDataValues, w \in NodeDataValues}

NoRunData == [defined |-> FALSE, entries |-> <<>>]
RunDataOf(entries) == [defined |-> TRUE, entries |-> entries]

(* workflowResult?: { runData?, status?, error? } *)
NoWorkflowResult == [defined |-> FALSE, runData |-> NoRunData, error |-> Undef]
WorkflowResultOf(rd, error) == [defined |-> TRUE, runData |-> rd, error |-> error]

WorkflowResults ==
    {NoWorkflowResult}
    \cup {WorkflowResultOf(rd, error) :
            rd \in {NoRunData} \cup {RunDataOf(e) : e \in RunDataObjects},
            error \in {Undef, Str("Workflow execution failed")}}

TransformInput(events, workflowResult) ==
    [called |-> TRUE, executionId |-> "test-execution-123",
     workflowData |-> [id |-> "workflow-123"],
     events |-> events, workflowResult |-> workflowResult, now |-> Now]

(* events.find(predicate): the first match, <<>> for undefined. *)
Find(events, Matches(_)) ==
    LET hits == SelectSeq(events, Matches)
    IN IF hits = <<>> THEN <<>> ELSE <<Head(hits)>>

StartedEvent(events) ==
    Find(events, LAMBDA e : e.hasType /\ e.type = WorkflowExecutionStarted)
CompletedEvent(events) ==
    Find(events, LAMBDA e : e.hasType /\ (e.type = WorkflowExecutionCompleted
                                           \/ e.type = WorkflowExecutionFailed))
CancelledEvent(events) ==
    Find(events, LAMBDA e : e.hasType /\ e.type = WorkflowExecutionCanceled)

(* StatusOf testing for a cancel event first. *)
StatusOfCancelFirst(events) ==
    LET completedEvent == CompletedEvent(events)
        cancelledEvent == CancelledEvent(events)
    IN IF cancelledEvent # <<>>
       THEN [status |-> "canceled", finished |-> TRUE]
       ELSE IF completedEvent # <<>> /\ completedEvent[1].type = WorkflowExecutionFailed
       THEN [status |-> "error", finished |-> TRUE]
       ELSE IF completedEvent # <<>>
       THEN [status |-> "success", finished |-> TRUE]
       ELSE [status |-> "running", finished |-> FALSE]

(* Lines 65-87. *)
StatusOf(events) ==
    LET completedEvent == CompletedEvent(events)
        cancelledEvent == CancelledEvent(events)
    IN IF completedEvent # <<>> /\ completedEvent[1].hasType
          /\ completedEvent[1].type = WorkflowExecutionFailed
       THEN [status |-> "error", finished |-> TRUE]
       ELSE IF cancelledEvent # <<>>
       THEN [status |-> "canceled", finished |-> TRUE]
       ELSE IF completedEvent # <<>> /\ completedEvent[1].hasType
               /\ completedEvent[1].type = WorkflowExecutionCompleted
       THEN [status |-> "success", finished |-> TRUE]
       ELSE [status |-> "running", finished |-> FALSE]

(* Lines 90-94; stoppedAt is <<>> when undefined. *)
StartedAt(events, now) ==
    IF StartedEvent(events) # <<>> THEN StartedEvent(events)[1].eventTime ELSE now
StoppedAt(events) ==
    LET closing == CompletedEvent(events) \o CancelledEvent(events)
    IN IF closing = <<>> THEN <<>> ELSE <<closing[1].eventTime>>

(* runDataItem.main && Array.isArray(runDataItem.main) *)
HasMainArray(runDataItem) == runDataItem.main.kind = "array"

(* Lines 122-132. *)
MakeTask(runDataItem, executionIndex, startedAt, stoppedAt, now, executionStatus) ==
    [startTime |-> startedAt,
     executionIndex |-> executionIndex,
     source |-> <<>>,
     executionTime |-> IF stoppedAt # <<>> THEN stoppedAt[1] - startedAt
                       ELSE now - startedAt,
     executionStatus |-> IF executionStatus = "error" THEN "error"
                         ELSE IF executionStatus = "canceled" THEN "canceled"
                         ELSE "success",
     data |-> [main |-> runDataItem.main.value]]

(* TaskItems without the test for a main array. *)
EveryItem(nodeData) ==
    IF nodeData.isArray THEN nodeData.items ELSE <<>>

(* The run items of a key that become tasks (lines 107, 112-115). *)
TaskItems(nodeData) ==
    IF nodeData.isArray THEN SelectSeq(nodeData.items, HasMainArray) ELSE <<>>

(* The loop of lines 106-146 over Object.entries(workflowResult.runData). *)
RECURSIVE TransformRunData(_, _, _, _, _, _)
TransformRunData(entries, executionIndex, startedAt, stoppedAt, now, executionStatus) ==
    IF entries = <<>> THEN <<>>
    ELSE LET items == TaskItems(Head(entries).value)
             taskData == [i \in 1..Len(items) |->
                            MakeTask(items[i], executionIndex + i - 1, startedAt,
                                     stoppedAt, now, executionStatus)]
         IN (IF Len(taskData) > 0 THEN <<Entry(Head(entries).key, taskData)>>
             ELSE <<>>)
            \o TransformRunData(Tail(entries), executionIndex + Len(items),
                                startedAt, stoppedAt, now, executionStatus)

(* getLastNodeExecuted *)
GetLastNodeExecuted(rd) ==
    IF Len(rd) > 0 THEN Str(rd[Len(rd)].key) ELSE Undef

(* `let executionError: ExecutionError | undefined;` is never assigned. *)
ExecutionErrorOf(workflowResult) == Undef

TransformHistoryToExecutionOf(input) ==
    LET st == StatusOf(input.events)
        startedAt == StartedAt(input.events, input.now)
        stoppedAt == StoppedAt(input.events)
        rd == IF input.workflowResult.defined /\ input.workflowResult.runData.defined
              THEN TransformRunData(input.workflowResult.runData.entries, 0,
                                    startedAt, stoppedAt, input.now, st.status)
              ELSE <<>>
    IN [returned |-> TRUE,
        id |-> input.executionId,
        mode |-> "trigger",
        createdAt |-> startedAt,
        startedAt |-> startedAt,
        stoppedAt |-> stoppedAt,
        workflowId |-> input.workflowData.id,
        finished |-> st.finished,
        status |-> st.status,
        runData |-> rd,
        error |-> ExecutionErrorOf(input.workflowResult),
        lastNodeExecuted |-> GetLastNodeExecuted(rd)]

InitTransformer ==
    /\ \E events \in Histories :
         \E workflowResult \in WorkflowResults :
           transformInput = TransformInput(events, workflowResult)
    /\ execution = NoExecution
    /\ WorkflowIdle
    /\ ActivityIdle
    /\ temporalConfig = DefaultConfig
    /\ CredentialsIdle
    /\ ProcessIdle
    /\ ClientIdle

TransformHistoryToExecution ==
    /\ ~execution.returned
    /\ execution' = TransformHistoryToExecutionOf(transformInput)
    /\ UNCHANGED <<workflowVars, activityVars, transformInput, temporalConfig,
                   credentialsVars, processVars, clientVars>>

NextTransformer == TransformHistoryToExecution

SpecTransformer == InitTransformer /\ [][NextTransformer]_vars

HasEvent(type) ==
    \E i \in 1..Len(transformInput.events) :
        transformInput.events[i].hasType /\ transformInput.events[i].type = type

(* C22: a history with a WorkflowExecutionFailed event and a workflow      *)
(* result that carries an error message give an execution with status     *)
(* 'error', finished true and a defined data.resultData.error.             *)
C22_FailedHasError ==
    /\ execution.returned
    /\ HasEvent(WorkflowExecutionFailed)
    /\ transformInput.workflowResult.defined
    /\ transformInput.workflowResult.error.defined
    => /\ execution.status = "error"
       /\ execution.finished
       /\ execution.error.defined

(* The status the precedence failed, cancelled, completed, running gives. *)
StatusByPrecedence(failed) ==
    IF failed THEN "error"
    ELSE IF HasEvent(WorkflowExecutionCanceled) THEN "canceled"
    ELSE IF HasEvent(WorkflowExecutionCompleted) THEN "success"
    ELSE "running"

NoClosingEvent ==
    /\ ~HasEvent(WorkflowExecutionCompleted)
    /\ ~HasEvent(WorkflowExecutionFailed)
    /\ ~HasEvent(WorkflowExecutionCanceled)

(* A Failed event that no Completed event precedes. *)
FailedBeforeCompleted ==
    \E i \in 1..Len(transformInput.events) :
        /\ transformInput.events[i].type = WorkflowExecutionFailed
        /\ \A j \in 1..(i - 1) :
              transformInput.events[j].type # WorkflowExecutionCompleted

(* C23 as stated: any Failed event gives 'error', otherwise a cancel event *)
(* gives 'canceled', otherwise a Completed event gives 'success',          *)
(* otherwise 'running'; finished is false exactly when the status is       *)
(* 'running', which is when the history has no closing event.              *)
C23_AsStated ==
    execution.returned =>
        /\ execution.status = StatusByPrecedence(HasEvent(WorkflowExecutionFailed))
        /\ ~execution.finished <=> execution.status = "running"
        /\ execution.status = "running" <=> NoClosingEvent

(* C23: a Failed event that no Completed event precedes gives 'error',     *)
(* otherwise a cancel event gives 'canceled', otherwise a Completed event  *)
(* gives 'success', otherwise 'running'; finished is false exactly when    *)
(* the status is 'running', which is when the history has no closing       *)
(* event.                                                                  *)
C23_StatusPrecedence ==
    execution.returned =>
        /\ execution.status = StatusByPrecedence(FailedBeforeCompleted)
        /\ ~execution.finished <=> execution.status = "running"
        /\ execution.status = "running" <=> NoClosingEvent

(* A history with a Failed and a cancel event was given the status 'error'. *)
C23_Witness ==
    /\ execution.returned
    /\ HasEvent(WorkflowExecutionFailed)
    /\ HasEvent(WorkflowExecutionCanceled)
    /\ execution.status = "error"
    /\ execution.finished

(* The entries of the runData given to the transformer. *)
InputEntries ==
    IF transformInput.workflowResult.defined
       /\ transformInput.workflowResult.runData.defined
    THEN transformInput.workflowResult.runData.entries
    ELSE <<>>

(* The positions, in a value of runData, of the run items with a main array. *)
WithMainArray(nodeData) ==
    IF nodeData.isArray
    THEN {i \in 1..Len(nodeData.items) : nodeData.items[i].main.kind = "array"}
    ELSE {}

KeysOf(entries) == {entries[k].key : k \in 1..Len(entries)}

ValueOf(entries, key) ==
    entries[CHOOSE k \in 1..Len(entries) : entries[k].key = key].value

(* C24: a key of workflowResult.runData whose value is an array holding    *)
(* run items with a main array is a key of the output runData, with one    *)
(* task per such run item, in order, whose data.main is the item's main;   *)
(* the output has no other key, and is empty for an empty runData.         *)
C24_NodesKept ==
    execution.returned =>
        /\ KeysOf(execution.runData) =
             {InputEntries[k].key :
                k \in {j \in 1..Len(InputEntries) :
                         WithMainArray(InputEntries[j].value) # {}}}
        /\ \A key \in KeysOf(execution.runData) :
             LET nodeData == ValueOf(InputEntries, key)
                 taskData == ValueOf(execution.runData, key)
                 kept == SortedSeq(WithMainArray(nodeData))
             IN /\ Len(taskData) = Len(kept)
                /\ \A t \in 1..Len(taskData) :
                     taskData[t].data.main = nodeData.items[kept[t]].main.value
        /\ InputEntries = <<>> => execution.runData = <<>>

(* Of two keys one was kept, with one task for its two run items, and the *)
(* other, whose run items hold no main array, was dropped.                *)
C24_Witness ==
    /\ execution.returned
    /\ Len(InputEntries) = 2
    /\ Len(execution.runData) = 1
    /\ Len(ValueOf(InputEntries, execution.runData[1].key).items) = 2
    /\ Len(execution.runData[1].value) = 1
    /\ \E k \in 1..2 :
         /\ InputEntries[k].key # execution.runData[1].key
         /\ InputEntries[k].value.isArray
         /\ InputEntries[k].value.items # <<>>

(***************************************************************************)
(* The result of WorkflowExecution as the transformer's workflowResult.    *)
(***************************************************************************)
(* resultData.runData of lines 95-99: the entries stored by lines 489-494. *)
ReturnedRunData ==
    LET ids == SelectSeq([i \in NodeIdx |-> AllIds[i]], LAMBDA id : runData[id].defined)
    IN [k \in 1..Len(ids) |->
          Entry(ids[k], MainObject([kind |-> "array", value |-> runData[ids[k]].main]))]

(* The execution the transformer gives for a completed run. *)
ExecutionOfRun ==
    TransformHistoryToExecutionOf(
        TransformInput(<<MakeEvent(WorkflowExecutionStarted, 1),
                         MakeEvent(WorkflowExecutionCompleted, 2)>>,
                       WorkflowResultOf(RunDataOf(ReturnedRunData), Undef)))

(* C27: the RunData WorkflowExecution returns is keyed by node name, each  *)
(* value an array of run items holding a main array, and every key of it   *)
(* is a key of the runData of the execution the transformer produces.      *)
C27_RunDataConsumed ==
    status = "completed" =>
        \A k \in 1..Len(ReturnedRunData) :
            /\ ReturnedRunData[k].key \in Names
            /\ WithMainArray(ReturnedRunData[k].value) # {}
            /\ ReturnedRunData[k].key \in KeysOf(ExecutionOfRun.runData)

====
